---------------------------- MODULE Spec2Model ----------------------------
(***************************************************************************)
(* Lifecycle driver and multi-service manager of github.com/aledantee/     *)
(* service.  The repository holds several drafts of the same package that  *)
(* cannot be built together (Service is a struct in service.go and an      *)
(* interface in context.go / manager.go), so the variable `variant` fixes  *)
(* which draft a behaviour runs:                                           *)
(*   "struct"  - service.go: Service.execute on one Service value          *)
(*   "handle"  - context.go: execute(ctx, svc) with a fresh Handle         *)
(*   "manager" - manager.go: the Manager over interface services           *)
(*   "runAndWait" - unnamed/part_000: RunAndWait over a Manager of its own *)
(***************************************************************************)
EXTENDS Integers, Sequences, FiniteSets, TLC

(***************************************************************************)
(* Bounds of the model.                                                    *)
(***************************************************************************)
NumTasks == 2      \* goroutines that call into the package
MaxExec == 2       \* calls of the drivers and of Phase, over all goroutines
MaxCalls == 3      \* calls of the Manager's methods, over all goroutines
MaxArgs == 2       \* services passed to one call of RunAndWait

Tasks == 1..NumTasks

(***************************************************************************)
(* Phase (phase.go, the int draft used by service.go and context.go).      *)
(***************************************************************************)
PhaseWaiting == 0
PhaseInitializing == 1
PhaseRunning == 2
PhaseShuttingDown == 3
PhaseError == 4
PhaseStopped == 5

\* The defined values of the enumeration.
Phases == {PhaseWaiting, PhaseInitializing, PhaseRunning, PhaseShuttingDown,
           PhaseError, PhaseStopped}

\* What Manager.Phase returns for an id it does not know: a Phase that is
\* none of the six above.
PhaseUnspecified == -1

(***************************************************************************)
(* Errors.  An error is its Unwrap chain, outermost first; nil is the      *)
(* empty chain.  errors.Is walks the chain.                                *)
(***************************************************************************)
Nil == <<>>
Canceled == <<"context.Canceled">>
WrappedCanceled == <<"run stopped", "context.Canceled">>
E1 == <<"E1">>
E2 == <<"E2">>

\* What the hooks of a concrete service may return.
InitErrors == {Nil, Canceled, E1}
RunErrors == {Nil, Canceled, WrappedCanceled, E1}
ShutdownErrors == {Nil, Canceled, E2}

Is(e, target) == \E i \in 1..Len(e) : e[i] = target[1]

\* errBuilder.Cause(cause).Related(related).Msg(msg): related is ignored if nil.
Msg(msg, cause, related) ==
    [err |-> <<msg>> \o cause, related |-> related, many |-> <<>>]

\* A nil error returned by the driver.
NoError == [err |-> Nil, related |-> Nil, many |-> <<>>]

\* The value of a task's result cell while the call has not returned.
Pending == [err |-> <<"pending">>, related |-> Nil, many |-> <<>>]

VARIABLES
    variant,       \* which draft of the package runs
    svc,           \* struct draft: which of the Init/Run/Shutdown fields are non-nil
    otelEnabled,   \* OtelEnabled(): the OTEL_ENABLED environment variable
    phase,         \* struct draft: Service.phase
    hphase,        \* handle draft: Handle.phase of each execution's handle
    phaseMtx,      \* handle draft: per handle, the tasks holding its phaseMtx.RLock
    pc,            \* where each task is in the call it makes
    initErr,       \* what Init returned to the task's current execution
    err,           \* execute's local err (what Run returned)
    shutdownErr,   \* execute's local shutdownErr
    ret,           \* what the task's last call returned
    called,        \* hooks the task's current execution has invoked, in order
    execs,         \* calls made so far
    initCalls,     \* invocations of the service's Init hook
    runCalls,      \* invocations of the service's Run hook
    shutdownCalls, \* invocations of the service's Shutdown hook
    services,      \* manager draft: manager.services, id -> service
    servicesMtx,   \* manager draft: the task holding servicesMtx for writing, or 0
    hooks,         \* manager draft: per service, the invocations of each hook
    goroutines,    \* manager draft: per service, the `go service.Run(ctx)` tasks
    local,         \* manager draft: the locals of the task's Manager call
    retId,         \* manager draft: the id the task's last Manager.Run returned
    completion,    \* manager draft: per service, its completion signal and result
    frame,         \* RunAndWait: the task's position, remaining arguments and errs
    exit           \* ExecuteExitContext: whether and how the process has exited

vars == <<variant, svc, otelEnabled, phase, hphase, phaseMtx, pc, initErr, err, shutdownErr, ret,
          called, execs, initCalls, runCalls, shutdownCalls, services,
          servicesMtx, hooks, goroutines, local, retId, completion, frame, exit>>

locals == <<initErr, err, shutdownErr>>
counters == <<initCalls, runCalls, shutdownCalls>>
mgr == <<services, servicesMtx, hooks, goroutines, local, retId, completion, frame, exit>>
env == <<variant, svc, otelEnabled, phaseMtx, mgr>>
\* What the Manager's operations leave alone: the drivers' own state.
drv == <<variant, svc, otelEnabled, phase, hphase, phaseMtx, err, shutdownErr, called,
         initCalls, runCalls, shutdownCalls, frame, exit>>

(***************************************************************************)
(* Service.setPhase: the write of the phase field under phaseMtx.          *)
(***************************************************************************)
setPhase(p) == phase' = p

\* Task t may start a call.  The tasks are interchangeable, so they make their
\* first calls in the order of their numbers.
MayCall(t) ==
    /\ pc[t] \in {"idle", "returned"}
    /\ IF t = 1 THEN TRUE ELSE pc[t - 1] # "idle"
    /\ execs < (IF variant = "manager" THEN MaxCalls ELSE MaxExec)

\* A return of the current call with result r.
Return(t, r) ==
    /\ pc' = [pc EXCEPT ![t] = "returned"]
    /\ ret' = [ret EXCEPT ![t] = r]

Goto(t, label) ==
    /\ pc' = [pc EXCEPT ![t] = label]
    /\ UNCHANGED ret

(***************************************************************************)
(* The error aggregation at the end of execute.                            *)
(***************************************************************************)
\* The message of a Run failure: service.go line 208, context.go line 242.
RunFailureMsg ==
    IF variant = "handle" THEN "service exited with error" ELSE "service failed"

ExecuteResultShutdownCancelReported(e, se) ==
    IF e # Nil /\ ~Is(e, Canceled)
    THEN Msg(RunFailureMsg, e, se)
    ELSE IF se # Nil
         THEN Msg("service shutdown failed", se, Nil)
         ELSE NoError

ExecuteResultIgnoringShutdown(e, se) ==
    IF e # Nil /\ ~Is(e, Canceled)
    THEN Msg(RunFailureMsg, e, Nil)
    ELSE IF se # Nil /\ ~Is(se, Canceled)
         THEN Msg("service shutdown failed", se, Nil)
         ELSE NoError

ExecuteResultCancelIsFailure(e, se) ==
    IF e # Nil
    THEN Msg(RunFailureMsg, e, se)
    ELSE IF se # Nil /\ ~Is(se, Canceled)
         THEN Msg("service shutdown failed", se, Nil)
         ELSE NoError

ExecuteResultRunCauseOnShutdown(e, se) ==
    IF e # Nil /\ ~Is(e, Canceled)
    THEN Msg(RunFailureMsg, e, se)
    ELSE IF se # Nil /\ ~Is(se, Canceled)
         THEN Msg("service shutdown failed", se, e)
         ELSE NoError

ExecuteResult(e, se) ==
    IF e # Nil /\ ~Is(e, Canceled)
    THEN Msg(RunFailureMsg, e, se)
    ELSE IF se # Nil /\ ~Is(se, Canceled)
         THEN Msg("service shutdown failed", se, Nil)
         ELSE NoError

(***************************************************************************)
(* The phase execute leaves behind once Run and Shutdown have returned.    *)
(***************************************************************************)
FinalPhaseAlwaysStopped(se) == PhaseStopped

FinalPhase(se) == IF se # Nil THEN PhaseError ELSE PhaseStopped

(***************************************************************************)
(* Struct draft: Service.execute, service.go.  Execute, ExecuteContext     *)
(* and ExecuteExitContext all enter here.                                  *)
(***************************************************************************)

\* The guard on the phase: the driver goes on only from PhaseWaiting.
GuardPassesAlways(p) == TRUE

GuardPasses(p) == p = PhaseWaiting

\* Lines 152-154: `s.Run == nil` is a usage error.
HasRunAlways(s) == TRUE

HasRun(s) == s.Run

\* Lines 147-161: no Run method, or not waiting: a usage error at once.
ExecuteEntry(t) ==
    /\ variant = "struct"
    /\ MayCall(t)
    /\ execs' = execs + 1
    /\ called' = [called EXCEPT ![t] = <<>>]
    /\ initErr' = [initErr EXCEPT ![t] = Nil]
    /\ err' = [err EXCEPT ![t] = Nil]
    /\ shutdownErr' = [shutdownErr EXCEPT ![t] = Nil]
    /\ IF ~HasRun(svc)
       THEN Return(t, Msg("service has no Run method", Nil, Nil))
       ELSE IF ~GuardPasses(phase)
            THEN Return(t, Msg("service is already running", Nil, Nil))
            ELSE /\ pc' = [pc EXCEPT ![t] = "start"]
                 /\ ret' = [ret EXCEPT ![t] = Pending]
    /\ UNCHANGED <<env, phase, hphase, counters>>

\* Lines 163-167: the context, the logger, then setPhase(PhaseInitializing).
ExecuteStart(t) ==
    /\ variant = "struct"
    /\ pc[t] = "start"
    /\ setPhase(PhaseInitializing)
    /\ Goto(t, "otel")
    /\ UNCHANGED <<env, hphase, locals, called, execs, counters>>

\* Lines 169-177: initOtel when telemetry is enabled; resource.New may fail.
ExecuteOtel(t) ==
    /\ variant = "struct"
    /\ pc[t] = "otel"
    /\ \/ Goto(t, "init")
       \/ /\ otelEnabled
          /\ Return(t, Msg("failed to initialize OpenTelemetry",
                           <<"failed to create resource", "E0">>, Nil))
    /\ UNCHANGED <<env, phase, hphase, locals, called, execs, counters>>

\* What the driver does with the error Init returned.
InitOutcomeIgnored(t, e) == Goto(t, "setRunning")

InitOutcome(t, e) ==
    IF e # Nil
    THEN Return(t, Msg("failed to initialize service", e, Nil))
    ELSE Goto(t, "setRunning")

\* Lines 179-186: Init, when the service has one.
ExecuteInit(t) ==
    /\ variant = "struct"
    /\ pc[t] = "init"
    /\ IF svc.Init
       THEN /\ initCalls' = initCalls + 1
            /\ called' = [called EXCEPT ![t] = Append(@, "Init")]
            /\ \E e \in InitErrors :
                  /\ initErr' = [initErr EXCEPT ![t] = e]
                  /\ InitOutcome(t, e)
       ELSE /\ Goto(t, "setRunning")
            /\ UNCHANGED <<initCalls, called, initErr>>
    /\ UNCHANGED <<env, phase, hphase, err, shutdownErr, execs, runCalls,
                   shutdownCalls>>

\* Lines 188-189: setPhase(PhaseRunning).
ExecuteSetRunning(t) ==
    /\ variant = "struct"
    /\ pc[t] = "setRunning"
    /\ setPhase(PhaseRunning)
    /\ Goto(t, "run")
    /\ UNCHANGED <<env, hphase, locals, called, execs, counters>>

\* Line 191: the call of Run, which blocks.
ExecuteRunCall(t) ==
    /\ variant = "struct"
    /\ pc[t] = "run"
    /\ runCalls' = runCalls + 1
    /\ called' = [called EXCEPT ![t] = Append(@, "Run")]
    /\ Goto(t, "running")
    /\ UNCHANGED <<env, phase, hphase, locals, execs, initCalls, shutdownCalls>>

\* Line 191: Run returns.
ExecuteRunReturn(t) ==
    /\ variant = "struct"
    /\ pc[t] = "running"
    /\ \E e \in RunErrors : err' = [err EXCEPT ![t] = e]
    /\ Goto(t, "afterRun")
    /\ UNCHANGED <<env, phase, hphase, initErr, shutdownErr, called, execs, counters>>

\* Lines 192-195: with a Shutdown hook, setPhase(PhaseShuttingDown).
ExecuteSetShuttingDown(t) ==
    /\ variant = "struct"
    /\ pc[t] = "afterRun"
    /\ IF svc.Shutdown
       THEN /\ setPhase(PhaseShuttingDown)
            /\ Goto(t, "shutdown")
       ELSE /\ Goto(t, "final")
            /\ UNCHANGED phase
    /\ UNCHANGED <<env, hphase, locals, called, execs, counters>>

\* Line 196: shutdownErr = s.Shutdown(s.runCtx).
ExecuteShutdown(t) ==
    /\ variant = "struct"
    /\ pc[t] = "shutdown"
    /\ shutdownCalls' = shutdownCalls + 1
    /\ called' = [called EXCEPT ![t] = Append(@, "Shutdown")]
    /\ \E e \in ShutdownErrors : shutdownErr' = [shutdownErr EXCEPT ![t] = e]
    /\ Goto(t, "final")
    /\ UNCHANGED <<env, phase, hphase, initErr, err, execs, initCalls, runCalls>>

\* Lines 199-214: the final phase and the aggregated result.
ExecuteReturn(t) ==
    /\ variant = "struct"
    /\ pc[t] = "final"
    /\ setPhase(FinalPhase(shutdownErr[t]))
    /\ Return(t, ExecuteResult(err[t], shutdownErr[t]))
    /\ UNCHANGED <<env, hphase, locals, called, execs, counters>>

\* A task starts a call that is not an execution: the locals of its last
\* execution are gone.
OtherCall(t, label) ==
    /\ MayCall(t)
    /\ execs' = execs + 1
    /\ called' = [called EXCEPT ![t] = <<>>]
    /\ initErr' = [initErr EXCEPT ![t] = Nil]
    /\ err' = [err EXCEPT ![t] = Nil]
    /\ shutdownErr' = [shutdownErr EXCEPT ![t] = Nil]
    /\ pc' = [pc EXCEPT ![t] = label]
    /\ ret' = [ret EXCEPT ![t] = Pending]

\* service.go lines 80-83: a task calls Service.Phase(), which takes no lock.
PhaseCall(t) ==
    /\ variant = "struct"
    /\ OtherCall(t, "Phase:read")
    /\ UNCHANGED <<env, phase, hphase, counters>>

\* Line 82: return s.phase.  The read races with the writes of setPhase; it
\* gives the value one of them, or the zero value, has stored.
PhaseReturn(t) ==
    /\ variant = "struct"
    /\ pc[t] = "Phase:read"
    /\ Return(t, [phase |-> phase])
    /\ UNCHANGED <<env, phase, hphase, locals, called, execs, counters>>

(***************************************************************************)
(* Handle draft: execute(ctx, svc), context.go.  svc is an interface, so   *)
(* every hook is present; each execution owns a fresh Handle, whose phase  *)
(* starts at the zero value PhaseWaiting.                                  *)
(***************************************************************************)

\* Handle.setPhase (unnamed/part_001): the write under the handle's phaseMtx,
\* whose Lock waits for the readers to leave.
hsetPhase(t, p) ==
    /\ phaseMtx[t] = {}
    /\ hphase' = [hphase EXCEPT ![t] = p]

\* Lines 185-204: the handle, setPhase(PhaseInitializing), the logger
\* (initLogger always returns nil).
HandleExecuteEntry(t) ==
    /\ variant = "handle"
    /\ MayCall(t)
    /\ execs' = execs + 1
    /\ called' = [called EXCEPT ![t] = <<>>]
    /\ initErr' = [initErr EXCEPT ![t] = Nil]
    /\ err' = [err EXCEPT ![t] = Nil]
    /\ shutdownErr' = [shutdownErr EXCEPT ![t] = Nil]
    /\ hsetPhase(t, PhaseInitializing)
    /\ pc' = [pc EXCEPT ![t] = "otel"]
    /\ ret' = [ret EXCEPT ![t] = Pending]
    /\ UNCHANGED <<env, phase, counters>>

\* Lines 206-214: initOtel when telemetry is enabled.
HandleExecuteOtel(t) ==
    /\ variant = "handle"
    /\ pc[t] = "otel"
    /\ \/ Goto(t, "init")
       \/ /\ otelEnabled
          /\ Return(t, Msg("failed to initialize OpenTelemetry",
                           <<"failed to create resource", "E0">>, Nil))
    /\ UNCHANGED <<env, phase, hphase, locals, called, execs, counters>>

\* Lines 216-219: svc.Init(handle).
HandleExecuteInit(t) ==
    /\ variant = "handle"
    /\ pc[t] = "init"
    /\ initCalls' = initCalls + 1
    /\ called' = [called EXCEPT ![t] = Append(@, "Init")]
    /\ \E e \in InitErrors :
          /\ initErr' = [initErr EXCEPT ![t] = e]
          /\ InitOutcome(t, e)
    /\ UNCHANGED <<env, phase, hphase, err, shutdownErr, execs, runCalls,
                   shutdownCalls>>

\* Lines 221-224: setPhase(PhaseRunning) and the call of svc.Run(handle).
HandleExecuteRunCall(t) ==
    /\ variant = "handle"
    /\ pc[t] = "setRunning"
    /\ hsetPhase(t, PhaseRunning)
    /\ runCalls' = runCalls + 1
    /\ called' = [called EXCEPT ![t] = Append(@, "Run")]
    /\ Goto(t, "running")
    /\ UNCHANGED <<env, phase, locals, execs, initCalls, shutdownCalls>>

\* Lines 224-227: Run returns.
HandleExecuteRunReturn(t) ==
    /\ variant = "handle"
    /\ pc[t] = "running"
    /\ \E e \in RunErrors : err' = [err EXCEPT ![t] = e]
    /\ Goto(t, "shutdown")
    /\ UNCHANGED <<env, phase, hphase, initErr, shutdownErr, called, execs, counters>>

\* Lines 229-231: setPhase(PhaseShuttingDown) and svc.Shutdown(handle).
HandleExecuteShutdown(t) ==
    /\ variant = "handle"
    /\ pc[t] = "shutdown"
    /\ hsetPhase(t, PhaseShuttingDown)
    /\ shutdownCalls' = shutdownCalls + 1
    /\ called' = [called EXCEPT ![t] = Append(@, "Shutdown")]
    /\ \E e \in ShutdownErrors : shutdownErr' = [shutdownErr EXCEPT ![t] = e]
    /\ Goto(t, "final")
    /\ UNCHANGED <<env, phase, initErr, err, execs, initCalls, runCalls>>

\* Lines 233-248: the final phase and the aggregated result.
HandleExecuteReturn(t) ==
    /\ variant = "handle"
    /\ pc[t] = "final"
    /\ hsetPhase(t, FinalPhase(shutdownErr[t]))
    /\ Return(t, ExecuteResult(err[t], shutdownErr[t]))
    /\ UNCHANGED <<env, phase, locals, called, execs, counters>>

\* The handle of task h's execution exists: its execution has begun.
HandleExists(h) == pc[h] \in {"otel", "init", "setRunning", "running", "shutdown",
                              "final"}

\* unnamed/part_001 lines 67-69: a task calls Handle.Phase() on the handle of
\* h's execution and takes the RLock.
HandlePhaseRLock(t, h) ==
    /\ variant = "handle"
    /\ HandleExists(h)
    /\ OtherCall(t, "Phase:read")
    /\ phaseMtx' = [phaseMtx EXCEPT ![h] = @ \cup {t}]
    /\ UNCHANGED <<variant, svc, otelEnabled, mgr, phase, hphase, counters>>

\* Lines 69-71: return h.phase, and the deferred RUnlock.
HandlePhaseReturn(t) ==
    /\ variant = "handle"
    /\ pc[t] = "Phase:read"
    /\ \E h \in Tasks :
          /\ t \in phaseMtx[h]
          /\ Return(t, [phase |-> hphase[h]])
          /\ phaseMtx' = [phaseMtx EXCEPT ![h] = @ \ {t}]
    /\ UNCHANGED <<variant, svc, otelEnabled, mgr, phase, hphase, locals, called,
                   execs, counters>>

(***************************************************************************)
(* Manager draft: manager.go.  The services are values of the Service      *)
(* interface; Objs are the instances a caller may pass, "a1" and "a2"      *)
(* being two instances of one identity.                                    *)
(***************************************************************************)
Objs == {"a1", "a2", "b"}

\* service.Name() and service.Version(), as character sequences.
Name(o) == IF o = "b" THEN <<"b">> ELSE <<"a">>
Version(o) == <<"1">>

\* Line 76: id := service.Name() + "@" + service.Version().
ServiceID(o) == Name(o) \o <<"@">> \o Version(o)

IDs == {ServiceID(o) : o \in Objs}

\* What the hooks of a managed service may return (the Manager passes the
\* errors on and never matches them against cancellation).
ManagedInitErrors == {Nil, E1}
ManagedRunErrors == {Nil, E1}
ManagedShutdownErrors == {Nil, E2}

\* The drafts in which a Manager exists: the callers' own, or the one
\* RunAndWait makes.
HasManager == variant \in {"manager", "runAndWait"}

\* `_, ok := m.services[id]`.
RegisteredNever(id) == FALSE

Registered(id) == id \in DOMAIN services

NoLocal == [op |-> "none", svc |-> "none", id |-> <<>>, pending |-> {}, errs |-> <<>>]

NoHooks == [Init |-> 0, Run |-> 0, Shutdown |-> 0]

NoGoroutines == [spawned |-> 0, running |-> 0, returned |-> 0]

NoCompletion == [done |-> FALSE, err |-> Nil]

\* ae.WrapMany(msg, errs...): nil when there is nothing to wrap.
WrapMany(msg, errs) ==
    IF errs = <<>> THEN NoError
    ELSE [err |-> <<msg>>, related |-> Nil, many |-> errs]

\* Hook h of service o is invoked.
InvokeAlsoRun(o, h) == hooks' = [hooks EXCEPT ![o][h] = @ + 1, ![o].Run = @ + 1]

Invoke(o, h) == hooks' = [hooks EXCEPT ![o][h] = @ + 1]

\* A return of the task's Manager call: its locals are gone.
ManagerReturn(t, r) ==
    /\ Return(t, r)
    /\ local' = [local EXCEPT ![t] = NoLocal]

\* A task calls one of the Manager's methods and gets past its first
\* RLock/Lock, which no writer may hold.
ManagerCall(t, op, o, id) ==
    /\ variant = "manager"
    /\ MayCall(t)
    /\ servicesMtx = 0
    /\ execs' = execs + 1
    /\ retId' = [retId EXCEPT ![t] = <<>>]
    /\ initErr' = [initErr EXCEPT ![t] = Nil]
    /\ UNCHANGED <<drv, completion, services, hooks, goroutines>>

Enter(t, op, o, id, label) ==
    /\ local' = [local EXCEPT ![t] = [NoLocal EXCEPT !.op = op, !.svc = o, !.id = id]]
    /\ pc' = [pc EXCEPT ![t] = label]
    /\ ret' = [ret EXCEPT ![t] = Pending]

\* Instance o may be passed to Manager.Run.  "a1" and "a2" are interchangeable,
\* so "a2" is passed only once "a1" has been.
MayPass(o) ==
    o = "a2" => (hooks["a1"].Init > 0 \/ \E u \in Tasks : local[u].svc = "a1")

\* Lines 75-86: Manager.Run(ctx, service): the id, the lookup under RLock;
\* a registered id is rejected.
ManagerRun(t, o) ==
    /\ MayPass(o)
    /\ ManagerCall(t, "Run", o, ServiceID(o))
    /\ IF Registered(ServiceID(o))
       THEN ManagerReturn(t, Msg("service already running", Nil, Nil))
       ELSE Enter(t, "Run", o, ServiceID(o), "Run:init")
    /\ UNCHANGED servicesMtx

\* What Manager.Run does with the error Init returned.
ManagerInitOutcomeIgnored(t, e) == Goto(t, "Run:register") /\ UNCHANGED local

ManagerInitOutcome(t, e) ==
    IF e # Nil
    THEN ManagerReturn(t, Msg("service failed to initialize", e, Nil))
    ELSE Goto(t, "Run:register") /\ UNCHANGED local

\* Lines 88-94: service.Init(ctx), on the caller's goroutine.
ManagerRunInit(t) ==
    /\ HasManager
    /\ pc[t] = "Run:init"
    /\ Invoke(local[t].svc, "Init")
    /\ \E e \in ManagedInitErrors :
          /\ initErr' = [initErr EXCEPT ![t] = e]
          /\ ManagerInitOutcome(t, e)
    /\ UNCHANGED <<drv, completion, execs, services, servicesMtx, goroutines, retId>>

\* Lines 96-102: the insertion under Lock, `go service.Run(ctx)`, return id.
ManagerRunRegister(t) ==
    /\ HasManager
    /\ pc[t] = "Run:register"
    /\ servicesMtx = 0
    /\ services' = [id \in DOMAIN services \cup {local[t].id} |->
                       IF id = local[t].id THEN local[t].svc ELSE services[id]]
    /\ goroutines' = [goroutines EXCEPT ![local[t].svc].spawned = @ + 1]
    /\ ManagerReturn(t, NoError)
    /\ retId' = [retId EXCEPT ![t] = local[t].id]
    /\ UNCHANGED <<drv, completion, execs, servicesMtx, hooks, initErr>>

\* Line 100: the launched goroutine calls service.Run(ctx).
GoroutineRunCall(o) ==
    /\ HasManager
    /\ goroutines[o].spawned > 0
    /\ goroutines' = [goroutines EXCEPT ![o].spawned = @ - 1, ![o].running = @ + 1]
    /\ Invoke(o, "Run")
    /\ UNCHANGED <<drv, completion, execs, services, servicesMtx, local, retId, initErr, pc, ret>>

\* The service's execution is over with result e: the completion signal is
\* written, once; it stays for every later reader.
Complete(o, e) ==
    completion' = [completion EXCEPT
                      ![o] = IF @.done THEN @ ELSE [done |-> TRUE, err |-> e]]

\* Line 100: service.Run(ctx) returns and the goroutine ends; the Manager
\* drops the error, the service keeps it as the result of its execution.
GoroutineRunReturn(o) ==
    /\ HasManager
    /\ goroutines[o].running > 0
    /\ goroutines' = [goroutines EXCEPT ![o].running = @ - 1, ![o].returned = @ + 1]
    /\ \E e \in ManagedRunErrors : Complete(o, e)
    /\ UNCHANGED hooks
    /\ UNCHANGED <<drv, execs, services, servicesMtx, local, retId, initErr, pc, ret>>

\* Lines 117-124: Manager.Shutdown(ctx, id): the lookup under RLock; nil
\* for an unknown id.
ManagerShutdown(t, id) ==
    /\ ManagerCall(t, "Shutdown", "none", id)
    /\ IF ~Registered(id)
       THEN ManagerReturn(t, NoError)
       ELSE Enter(t, "Shutdown", services[id], id, "Shutdown:call")
    /\ UNCHANGED servicesMtx

\* Line 126: return service.Shutdown(ctx).
ManagerShutdownCall(t) ==
    /\ variant = "manager"
    /\ pc[t] = "Shutdown:call"
    /\ Invoke(local[t].svc, "Shutdown")
    /\ \E e \in ManagedShutdownErrors :
          ManagerReturn(t, [err |-> e, related |-> Nil, many |-> <<>>])
    /\ UNCHANGED <<drv, completion, execs, services, servicesMtx, goroutines, retId, initErr>>

\* Lines 129-134: Manager.ShutdownAll(ctx): Lock, held until the deferred
\* Unlock; the range over the map.
ManagerShutdownAll(t) ==
    /\ ManagerCall(t, "ShutdownAll", "none", <<>>)
    /\ servicesMtx' = t
    /\ local' = [local EXCEPT ![t] = [NoLocal EXCEPT !.op = "ShutdownAll",
                                                     !.pending = DOMAIN services]]
    /\ pc' = [pc EXCEPT ![t] = "ShutdownAll:range"]
    /\ ret' = [ret EXCEPT ![t] = Pending]

\* The entry ShutdownAll and WaitAll append for service o whose call
\* returned the non-nil e: Attr("name"), Attr("version"), Cause(e), Msg(msg).
EntryAnonymous(o, msg, e) == [name |-> <<>>, version |-> <<>>, err |-> <<msg>> \o e]

Entry(o, msg, e) == [name |-> Name(o), version |-> Version(o), err |-> <<msg>> \o e]

\* What is left of the range once the call for id has returned e: the loop
\* goes on whatever e is.
RemainingStopsAtError(pending, id, e) == IF e # Nil THEN {} ELSE pending \ {id}

Remaining(pending, id, e) == pending \ {id}

\* Lines 134-143: one iteration, in the map's arbitrary order.
ManagerShutdownAllNext(t) ==
    /\ variant = "manager"
    /\ pc[t] = "ShutdownAll:range"
    /\ \E id \in local[t].pending :
          /\ Invoke(services[id], "Shutdown")
          /\ \E e \in ManagedShutdownErrors :
                local' = [local EXCEPT
                    ![t].pending = Remaining(@, id, e),
                    ![t].errs = IF e # Nil
                                THEN Append(@, Entry(services[id],
                                                     "service failed to shutdown", e))
                                ELSE @]
    /\ Goto(t, "ShutdownAll:range")
    /\ UNCHANGED <<drv, completion, execs, services, servicesMtx, goroutines, retId, initErr>>

\* Lines 131, 145: the aggregate, and the deferred Unlock.
ManagerShutdownAllReturn(t) ==
    /\ variant = "manager"
    /\ pc[t] = "ShutdownAll:range"
    /\ local[t].pending = {}
    /\ servicesMtx' = 0
    /\ ManagerReturn(t, WrapMany("at least one service failed to shut down",
                                 local[t].errs))
    /\ UNCHANGED <<drv, completion, execs, services, hooks, goroutines, retId, initErr>>

(***************************************************************************)
(* The managed service's own Phase() and Wait(), which manager.go calls:   *)
(* the phase its execution has reached, and the wait for its completion    *)
(* signal.                                                                 *)
(***************************************************************************)
ServicePhase(o) ==
    IF completion[o].done
    THEN IF completion[o].err # Nil THEN PhaseError ELSE PhaseStopped
    ELSE IF goroutines[o].running > 0 THEN PhaseRunning
    ELSE IF hooks[o].Init > 0 THEN PhaseInitializing
    ELSE PhaseWaiting

\* service.Wait() may return: the completion signal is written.
WaitReady(o) == completion[o].done

\* What service.Wait() returns.
WaitResult(o) == completion[o].err

\* What a Wait that has returned leaves of the completion signal: all of it,
\* the signal is broadcast to every waiter.
AfterWaitConsumed(o) == [completion EXCEPT ![o] = NoCompletion]

AfterWait(o) == completion

\* Lines 105-115: what Manager.Phase(id) returns.
PhaseLookupUnchecked(id) ==
    [phase |-> ServicePhase(CHOOSE o \in Objs : ServiceID(o) = id)]

PhaseLookup(id) ==
    [phase |-> IF ~Registered(id) THEN PhaseUnspecified ELSE ServicePhase(services[id])]

\* Lines 105-115: Manager.Phase(id).
ManagerPhase(t, id) ==
    /\ ManagerCall(t, "Phase", "none", id)
    /\ ManagerReturn(t, PhaseLookup(id))
    /\ UNCHANGED servicesMtx

\* Lines 148-155: Manager.Wait(id): the lookup under RLock; nil for an
\* unknown id.
ManagerWait(t, id) ==
    /\ ManagerCall(t, "Wait", "none", id)
    /\ IF ~Registered(id)
       THEN ManagerReturn(t, NoError)
       ELSE Enter(t, "Wait", services[id], id, "Wait:wait")
    /\ UNCHANGED servicesMtx

\* Line 157: return service.Wait(), which blocks until the service is done.
ManagerWaitReturn(t) ==
    /\ variant = "manager"
    /\ pc[t] = "Wait:wait"
    /\ WaitReady(local[t].svc)
    /\ ManagerReturn(t, [err |-> WaitResult(local[t].svc), related |-> Nil, many |-> <<>>])
    /\ completion' = AfterWait(local[t].svc)
    /\ UNCHANGED <<drv, execs, services, servicesMtx, hooks, goroutines,
                   retId, initErr>>

\* Lines 160-165: Manager.WaitAll(): Lock, held until the deferred Unlock;
\* the range over the map.
ManagerWaitAll(t) ==
    /\ ManagerCall(t, "WaitAll", "none", <<>>)
    /\ servicesMtx' = t
    /\ local' = [local EXCEPT ![t] = [NoLocal EXCEPT !.op = "WaitAll",
                                                     !.pending = DOMAIN services]]
    /\ pc' = [pc EXCEPT ![t] = "WaitAll:range"]
    /\ ret' = [ret EXCEPT ![t] = Pending]

\* Lines 165-174: one iteration: service.Wait() returns once that service is
\* done.
ManagerWaitAllNext(t) ==
    /\ HasManager
    /\ pc[t] = "WaitAll:range"
    /\ \E id \in local[t].pending :
          /\ WaitReady(services[id])
          /\ local' = [local EXCEPT
                ![t].pending = Remaining(@, id, WaitResult(services[id])),
                ![t].errs = IF WaitResult(services[id]) # Nil
                            THEN Append(@, Entry(services[id],
                                                 "service exited with an error",
                                                 WaitResult(services[id])))
                            ELSE @]
    /\ Goto(t, "WaitAll:range")
    /\ UNCHANGED <<drv, completion, execs, services, servicesMtx, hooks, goroutines,
                   retId, initErr>>

\* Lines 162, 176: the aggregate, and the deferred Unlock.
ManagerWaitAllReturn(t) ==
    /\ HasManager
    /\ pc[t] = "WaitAll:range"
    /\ local[t].pending = {}
    /\ servicesMtx' = 0
    /\ ManagerReturn(t, WrapMany("at least one service failed", local[t].errs))
    /\ UNCHANGED <<drv, completion, execs, services, hooks, goroutines, retId, initErr>>

(***************************************************************************)
(* RunAndWait(ctx, service...), unnamed/part_000: a Manager of its own,    *)
(* m.Run for each argument in turn, then m.WaitAll().                      *)
(***************************************************************************)
NoFrame == [at |-> "none", args |-> <<>>, errs |-> <<>>]

RECURSIVE SeqsUpTo(_, _)
SeqsUpTo(S, n) ==
    IF n = 0 THEN {<<>>}
    ELSE SeqsUpTo(S, n - 1) \cup
         {Append(q, x) : q \in {r \in SeqsUpTo(S, n - 1) : Len(r) = n - 1}, x \in S}

\* The variadic argument lists a caller may pass.
ArgLists == SeqsUpTo(Objs, MaxArgs)

\* Lines 68-75: no service, nil at once; else NewManager() and the range.
RunAndWait(t, args) ==
    /\ variant = "runAndWait"
    /\ MayCall(t)
    /\ \A u \in Tasks : frame[u].at = "none"
    /\ execs' = execs + 1
    /\ IF args = <<>>
       THEN /\ Return(t, NoError)
            /\ frame' = [frame EXCEPT ![t] = [NoFrame EXCEPT !.at = "nothing"]]
       ELSE /\ pc' = [pc EXCEPT ![t] = "RunAndWait:range"]
            /\ ret' = [ret EXCEPT ![t] = Pending]
            /\ frame' = [frame EXCEPT ![t] = [at |-> "range", args |-> args,
                                              errs |-> <<>>]]
    /\ UNCHANGED <<variant, svc, otelEnabled, phase, hphase, phaseMtx, locals, called,
                   counters, services, servicesMtx, hooks, goroutines, local, retId,
                   completion, exit>>

\* Line 77 and manager.go lines 75-86: m.Run(ctx, s) for the next argument,
\* up to its lookup.
RunAndWaitRun(t) ==
    /\ variant = "runAndWait"
    /\ pc[t] = "RunAndWait:range"
    /\ frame[t].args # <<>>
    /\ servicesMtx = 0
    /\ frame' = [frame EXCEPT ![t].at = "Run"]
    /\ LET o == Head(frame[t].args) IN
          IF Registered(ServiceID(o))
          THEN ManagerReturn(t, Msg("service already running", Nil, Nil))
          ELSE Enter(t, "Run", o, ServiceID(o), "Run:init")
    /\ UNCHANGED <<variant, svc, otelEnabled, phase, hphase, phaseMtx, locals, called,
                   counters, execs, services, servicesMtx, hooks, goroutines, retId,
                   completion, exit>>


Collected(errs, o, e) ==
    IF e # NoError THEN Append(errs, Entry(o, "service failed", e.err)) ELSE errs

\* Lines 77-87: m.Run has returned e; a non-nil e is appended to errs.
RunAndWaitCollect(t) ==
    /\ variant = "runAndWait"
    /\ pc[t] = "returned"
    /\ frame[t].at = "Run"
    /\ frame' = [frame EXCEPT
                    ![t].at = "range",
                    ![t].args = Tail(@),
                    ![t].errs = Collected(@, Head(frame[t].args), ret[t])]
    /\ pc' = [pc EXCEPT ![t] = "RunAndWait:range"]
    /\ ret' = [ret EXCEPT ![t] = Pending]
    /\ UNCHANGED <<variant, svc, otelEnabled, phase, hphase, phaseMtx, locals, called,
                   counters, execs, services, servicesMtx, hooks, goroutines, local,
                   retId, completion, exit>>

\* Line 89 and manager.go lines 160-165: return m.WaitAll(): what WaitAll
\* returns is what RunAndWait returns; errs is not read.
RunAndWaitWaitAll(t) ==
    /\ variant = "runAndWait"
    /\ pc[t] = "RunAndWait:range"
    /\ frame[t].args = <<>>
    /\ servicesMtx = 0
    /\ servicesMtx' = t
    /\ frame' = [frame EXCEPT ![t].at = "WaitAll"]
    /\ local' = [local EXCEPT ![t] = [NoLocal EXCEPT !.op = "WaitAll",
                                                     !.pending = DOMAIN services]]
    /\ pc' = [pc EXCEPT ![t] = "WaitAll:range"]
    /\ UNCHANGED <<variant, svc, otelEnabled, phase, hphase, phaseMtx, locals, called,
                   counters, execs, services, hooks, goroutines, retId, completion, ret, exit>>

(***************************************************************************)
(* ExecuteExit / ExecuteExitContext, service.go lines 125-137 and           *)
(* context.go lines 152-170: the driver's result turned into a process     *)
(* exit.                                                                   *)
(***************************************************************************)
NoExit == [exited |-> FALSE, err |-> Nil, printed |-> FALSE, code |-> 0]

\* ae.ExitCode(err), of the library github.com/aledantee/ae: the code attached
\* to the error with ExitCode(n) (unnamed/part_000 line 45), and for an error
\* that carries none, as all the driver's own errors, the failure code 1.
ExitCode(e) == IF e = Nil THEN 0 ELSE 1

\* `if !errors.Is(err, context.Canceled) { ae.Print(err) }`.
Printed(e) == ~Is(e, Canceled)

\* The driver has returned r to ExecuteExitContext: nil, the function
\* returns; else the error is printed unless it matches cancellation, and
\* os.Exit(ae.ExitCode(err)) ends the process with all its goroutines.
ExecuteExitContext(t) ==
    /\ variant \in {"struct", "handle"}
    /\ pc[t] = "returned"
    /\ DOMAIN ret[t] = DOMAIN NoError
    /\ IF ret[t] = NoError
       THEN /\ pc' = [pc EXCEPT ![t] = "ExecuteExit:returned"]
            /\ UNCHANGED exit
       ELSE /\ pc' = [u \in Tasks |-> "exited"]
            /\ exit' = [exited |-> TRUE, err |-> ret[t].err,
                        printed |-> Printed(ret[t].err),
                        code |-> ExitCode(ret[t].err)]
    /\ UNCHANGED <<variant, svc, otelEnabled, phase, hphase, phaseMtx, locals, called,
                   counters, execs, ret, services, servicesMtx, hooks, goroutines,
                   local, retId, completion, frame>>

Init ==
    /\ variant \in {"struct", "handle", "manager", "runAndWait"}
    /\ svc \in [Init : BOOLEAN, Run : BOOLEAN, Shutdown : BOOLEAN]
    /\ variant # "struct" => svc = [Init |-> TRUE, Run |-> TRUE, Shutdown |-> TRUE]
    /\ otelEnabled \in BOOLEAN
    /\ HasManager => ~otelEnabled
    /\ phase = PhaseWaiting
    /\ hphase = [t \in Tasks |-> PhaseWaiting]
    /\ phaseMtx = [t \in Tasks |-> {}]
    /\ pc = [t \in Tasks |-> "idle"]
    /\ initErr = [t \in Tasks |-> Nil]
    /\ err = [t \in Tasks |-> Nil]
    /\ shutdownErr = [t \in Tasks |-> Nil]
    /\ ret = [t \in Tasks |-> NoError]
    /\ called = [t \in Tasks |-> <<>>]
    /\ execs = 0
    /\ initCalls = 0
    /\ runCalls = 0
    /\ shutdownCalls = 0
    /\ services = <<>>
    /\ servicesMtx = 0
    /\ hooks = [o \in Objs |-> NoHooks]
    /\ goroutines = [o \in Objs |-> NoGoroutines]
    /\ local = [t \in Tasks |-> NoLocal]
    /\ retId = [t \in Tasks |-> <<>>]
    /\ completion = [o \in Objs |-> NoCompletion]
    /\ frame = [t \in Tasks |-> NoFrame]
    /\ exit = NoExit

ManagerNext ==
    \/ \E o \in Objs : GoroutineRunCall(o) \/ GoroutineRunReturn(o)
    \/ \E t \in Tasks, o \in Objs : ManagerRun(t, o)
    \/ \E t \in Tasks, id \in IDs : ManagerShutdown(t, id)
    \/ \E t \in Tasks, id \in IDs : ManagerPhase(t, id)
    \/ \E t \in Tasks, id \in IDs : ManagerWait(t, id)
    \/ \E t \in Tasks :
        \/ ManagerRunInit(t)
        \/ ManagerRunRegister(t)
        \/ ManagerShutdownCall(t)
        \/ ManagerShutdownAll(t)
        \/ ManagerShutdownAllNext(t)
        \/ ManagerShutdownAllReturn(t)
        \/ ManagerWaitReturn(t)
        \/ ManagerWaitAll(t)
        \/ ManagerWaitAllNext(t)
        \/ ManagerWaitAllReturn(t)

DriverNext ==
    \E t \in Tasks :
        \/ ExecuteEntry(t)
        \/ ExecuteStart(t)
        \/ ExecuteOtel(t)
        \/ ExecuteInit(t)
        \/ ExecuteSetRunning(t)
        \/ ExecuteRunCall(t)
        \/ ExecuteRunReturn(t)
        \/ ExecuteSetShuttingDown(t)
        \/ ExecuteShutdown(t)
        \/ ExecuteReturn(t)
        \/ HandleExecuteEntry(t)
        \/ HandleExecuteOtel(t)
        \/ HandleExecuteInit(t)
        \/ HandleExecuteRunCall(t)
        \/ HandleExecuteRunReturn(t)
        \/ HandleExecuteShutdown(t)
        \/ HandleExecuteReturn(t)
        \/ PhaseCall(t)
        \/ PhaseReturn(t)
        \/ \E h \in Tasks : HandlePhaseRLock(t, h)
        \/ HandlePhaseReturn(t)

RunAndWaitNext ==
    \/ \E o \in Objs : GoroutineRunCall(o) \/ GoroutineRunReturn(o)
    \/ \E t \in Tasks, args \in ArgLists : RunAndWait(t, args)
    \/ \E t \in Tasks :
        \/ RunAndWaitRun(t)
        \/ ManagerRunInit(t)
        \/ ManagerRunRegister(t)
        \/ RunAndWaitCollect(t)
        \/ RunAndWaitWaitAll(t)
        \/ ManagerWaitAllNext(t)
        \/ ManagerWaitAllReturn(t)

\* The drivers with their exit-translating entry points.
ExecuteExitNext == DriverNext \/ \E t \in Tasks : ExecuteExitContext(t)

Next == ManagerNext \/ ExecuteExitNext \/ RunAndWaitNext

\* The whole package, whichever draft is built.
Spec == Init /\ [][Next]_vars

\* The two drafts of the driver alone, and the Manager alone.
DriverInit == Init /\ variant \in {"struct", "handle"}

DriverSpec == DriverInit /\ [][DriverNext]_vars

ManagerInit == Init /\ variant = "manager"

ManagerSpec == ManagerInit /\ [][ManagerNext]_vars

\* The drivers called through ExecuteExit / ExecuteExitContext as well.
ExecuteExitSpec == DriverInit /\ [][ExecuteExitNext]_vars

\* RunAndWait alone.
RunAndWaitInit == Init /\ variant = "runAndWait"

RunAndWaitSpec == RunAndWaitInit /\ [][RunAndWaitNext]_vars

(***************************************************************************)
(* Vocabulary of the properties.                                           *)
(***************************************************************************)
Returned(t) == pc[t] = "returned"

\* The task's current execution has invoked hook h.
Invoked(t, h) == \E i \in 1..Len(called[t]) : called[t][i] = h

\* The phase of the service instance (struct draft) or handle (handle
\* draft) that task t's execution drives.
PhaseOf(t) == IF variant = "struct" THEN phase ELSE hphase[t]

\* Run failed: it returned an error that is not cancellation.
RunFailed(e) == e # Nil /\ ~Is(e, Canceled)

IsDriver == variant \in {"struct", "handle"}

(***************************************************************************)
(* C1: an execution of the driver whose Init returned a non-nil error      *)
(* invokes neither Run nor Shutdown.                                       *)
(***************************************************************************)
C1_InitFailureSkipsRunAndShutdown ==
    \A t \in Tasks :
        (IsDriver /\ initErr[t] # Nil) =>
            /\ ~Invoked(t, "Run")
            /\ ~Invoked(t, "Shutdown")
            /\ called[t] = <<"Init">>

C1_Witness ==
    \E t \in Tasks :
        /\ IsDriver
        /\ initErr[t] = E1
        /\ Returned(t)
        /\ ret[t].err = <<"failed to initialize service", "E1">>

(***************************************************************************)
(* C2: when the driver returns because Init or the telemetry setup         *)
(* failed, the phase at the moment of return is PhaseError.                *)
(***************************************************************************)
C2_InitFailureEndsInPhaseError ==
    [][\A t \in Tasks :
          (IsDriver /\ pc[t] \in {"otel", "init"} /\ pc'[t] = "returned")
              => PhaseOf(t)' = PhaseError]_vars

(***************************************************************************)
(* C4: when Run returned a non-cancellation error E1 the result is the     *)
(* run failure with cause E1, and what Shutdown returned (nil or E2) is    *)
(* attached as related, apart from the cause.                              *)
(***************************************************************************)
C4_RunFailureCarriesBothCauses ==
    \A t \in Tasks :
        (IsDriver /\ Returned(t) /\ Invoked(t, "Run") /\ RunFailed(err[t])) =>
            /\ ret[t].err = <<RunFailureMsg>> \o err[t]
            /\ ret[t].related = shutdownErr[t]

C4_Witness ==
    \E t \in Tasks :
        /\ IsDriver
        /\ Returned(t)
        /\ called[t] = <<"Init", "Run", "Shutdown">>
        /\ err[t] = E1
        /\ shutdownErr[t] = E2
        /\ ret[t] = Msg("service failed", E1, E2)

(***************************************************************************)
(* C5: when Run returned an error that matches cancellation and Shutdown   *)
(* returned nil, the driver returns nil.                                   *)
(***************************************************************************)
C5_CancelledRunIsSuccess ==
    \A t \in Tasks :
        (/\ IsDriver
         /\ Returned(t)
         /\ Invoked(t, "Run")
         /\ Is(err[t], Canceled)
         /\ shutdownErr[t] = Nil) => ret[t] = NoError

C5_Witness ==
    \E t \in Tasks :
        /\ IsDriver
        /\ Returned(t)
        /\ called[t] = <<"Init", "Run", "Shutdown">>
        /\ err[t] = WrappedCanceled
        /\ shutdownErr[t] = Nil
        /\ ret[t] = NoError

C7_FinalPhaseReflectsRunFailure ==
    [][\A t \in Tasks :
          (IsDriver /\ pc[t] = "final" /\ pc'[t] = "returned") =>
              PhaseOf(t)' = IF RunFailed(err[t]) \/ shutdownErr[t] # Nil
                            THEN PhaseError
                            ELSE PhaseStopped]_vars

(***************************************************************************)
(* C8: a call of the driver on a Service whose phase is not PhaseWaiting   *)
(* returns "service is already running" at once, invokes no hook and       *)
(* leaves the phase as it was.                                             *)
(***************************************************************************)
C8_RejectedCall(t) ==
    /\ pc[t] \in {"idle", "returned"}
    /\ pc' = [pc EXCEPT ![t] = "returned"]
    /\ ret' = [ret EXCEPT ![t] = Msg("service is already running", Nil, Nil)]
    /\ called' = [called EXCEPT ![t] = <<>>]

C8_NotWaitingIsRejected ==
    [][(/\ variant = "struct"
        /\ execs' = execs + 1
        /\ \A t \in Tasks : pc'[t] = "Phase:read" => pc[t] = "Phase:read"
        /\ phase # PhaseWaiting) =>
          /\ phase' = phase
          /\ counters' = counters
          /\ \E t \in Tasks : C8_RejectedCall(t)]_vars

C8_Witness ==
    \E t \in Tasks :
        /\ variant = "struct"
        /\ Returned(t)
        /\ ret[t] = Msg("service is already running", Nil, Nil)
        /\ phase \in {PhaseInitializing, PhaseRunning, PhaseStopped}

(***************************************************************************)
(* C3: for a service with a Shutdown hook, once the task that invoked Run  *)
(* is through (the driver has returned; under the Manager, the launched    *)
(* goroutine has ended and no Manager call is in progress), Shutdown has   *)
(* been invoked exactly once, after Run returned.                          *)
(***************************************************************************)
ManagerQuiescent ==
    /\ \A t \in Tasks : pc[t] \in {"idle", "returned"}
    /\ \A o \in Objs : goroutines[o].spawned = 0 /\ goroutines[o].running = 0

C3_ShutdownExactlyOnceAfterRun ==
    /\ IsDriver =>
          \A t \in Tasks :
              (Returned(t) /\ Invoked(t, "Run") /\ svc.Shutdown) =>
                  /\ Cardinality({i \in 1..Len(called[t]) :
                                     called[t][i] = "Shutdown"}) = 1
                  /\ called[t][Len(called[t])] = "Shutdown"
                  /\ called[t][Len(called[t]) - 1] = "Run"
    /\ variant = "manager" =>
          \A o \in Objs :
              (ManagerQuiescent /\ goroutines[o].returned > 0) =>
                  hooks[o].Shutdown = goroutines[o].returned

(***************************************************************************)
(* C9: Manager.Run with an identity that is registered returns the         *)
(* "service already running" error: such a call never gets to Init, and a  *)
(* rejected call leaves the mapping, the hooks and the goroutines as they  *)
(* were, the identity still mapped to the one record it had.               *)
(***************************************************************************)
C9_DuplicateIdentityRejected ==
    [][variant = "manager" =>
          \A t \in Tasks :
              /\ (pc[t] \in {"idle", "returned"} /\ pc'[t] = "Run:init") =>
                    local'[t].id \notin DOMAIN services
              /\ (/\ pc[t] \in {"idle", "returned"}
                  /\ execs' = execs + 1
                  /\ ret'[t] = Msg("service already running", Nil, Nil)
                  /\ ret[t] # ret'[t]) =>
                    /\ pc'[t] = "returned"
                    /\ retId'[t] = <<>>
                    /\ services' = services
                    /\ hooks' = hooks
                    /\ goroutines' = goroutines
                    /\ \E o \in Objs : ServiceID(o) \in DOMAIN services]_vars

C9_Witness ==
    \E t \in Tasks :
        /\ variant = "manager"
        /\ Returned(t)
        /\ ret[t] = Msg("service already running", Nil, Nil)
        /\ DOMAIN services = {ServiceID("a2")}
        /\ services[ServiceID("a2")] = "a1"
        /\ hooks["a2"] = NoHooks

(***************************************************************************)
(* C10: when Init returns an error inside Manager.Run, the call returns    *)
(* "service failed to initialize" with that error as its cause and no id,  *)
(* registers nothing (an id that was unknown stays unknown, so Phase(id)   *)
(* is PhaseUnspecified and Wait(id) returns nil) and launches no Run.      *)
(***************************************************************************)
C10_InitFailureRegistersNothing ==
    [][variant = "manager" =>
          \A t \in Tasks :
              (pc[t] = "Run:init" /\ initErr'[t] # Nil) =>
                  /\ pc'[t] = "returned"
                  /\ ret'[t] = Msg("service failed to initialize", initErr'[t], Nil)
                  /\ retId'[t] = <<>>
                  /\ services' = services
                  /\ (local[t].id \notin DOMAIN services) =>
                        (local[t].id \notin DOMAIN services')
                  /\ goroutines' = goroutines
                  /\ hooks'[local[t].svc].Run = hooks[local[t].svc].Run]_vars

C10_Witness ==
    \E t \in Tasks :
        /\ variant = "manager"
        /\ Returned(t)
        /\ ret[t] = Msg("service failed to initialize", E1, Nil)
        /\ retId[t] = <<>>
        /\ services = <<>>
        /\ hooks["a1"] = [Init |-> 1, Run |-> 0, Shutdown |-> 0]
        /\ goroutines["a1"] = NoGoroutines

(***************************************************************************)
(* C11: the task Manager.Run launches for a registered service goes on     *)
(* after Run returns: once it has ended, the service's Shutdown has been   *)
(* invoked, also when no caller has made an explicit Shutdown or           *)
(* ShutdownAll call.                                                       *)
(***************************************************************************)
C11_LaunchedTaskShutsDown ==
    variant = "manager" =>
        \A o \in Objs :
            (/\ goroutines[o].returned > 0
             /\ goroutines[o].spawned = 0
             /\ goroutines[o].running = 0) => hooks[o].Shutdown > 0

C13_ShutdownAllCollectsFailures ==
    [][variant = "manager" =>
          \A t \in Tasks :
              /\ (pc[t] \in {"idle", "returned"} /\ pc'[t] = "ShutdownAll:range") =>
                    /\ local'[t].pending = DOMAIN services
                    /\ local'[t].errs = <<>>
              /\ (/\ pc[t] = "ShutdownAll:range"
                  /\ pc'[t] = "ShutdownAll:range"
                  /\ local'[t] # local[t]) =>
                    \E id \in local[t].pending :
                        /\ local'[t].pending = local[t].pending \ {id}
                        /\ hooks' = [hooks EXCEPT ![services[id]].Shutdown = @ + 1]
                        /\ \/ local'[t].errs = local[t].errs
                           \/ local'[t].errs =
                                 Append(local[t].errs,
                                        [name |-> Name(services[id]),
                                         version |-> Version(services[id]),
                                         err |-> <<"service failed to shutdown", "E2">>])
              /\ (pc[t] = "ShutdownAll:range" /\ pc'[t] = "returned") =>
                    /\ local[t].pending = {}
                    /\ (ret'[t] = NoError) <=> (local[t].errs = <<>>)
                    /\ local[t].errs # <<>> =>
                          /\ ret'[t].err = <<"at least one service failed to shut down">>
                          /\ ret'[t].many = local[t].errs]_vars

\* Both registered services failed to shut down, and both are in the result.
C13_Witness ==
    \E t \in Tasks :
        /\ variant = "manager"
        /\ Returned(t)
        /\ DOMAIN services = {ServiceID("a1"), ServiceID("b")}
        /\ DOMAIN ret[t] = {"err", "related", "many"}
        /\ Len(ret[t].many) = 2
        /\ {ret[t].many[i].name : i \in 1..2} = {Name("a1"), Name("b")}
        /\ \A i \in 1..2 : ret[t].many[i].err = <<"service failed to shutdown", "E2">>

(***************************************************************************)
(* C14: when Manager.WaitAll returns, every registered service (none can   *)
(* be registered while the call holds the lock) is in a terminal phase,    *)
(* the result is nil exactly when none of them ended with an error, and    *)
(* otherwise it is the aggregate with one entry per service that did,      *)
(* carrying its name, its version and its error.                           *)
(***************************************************************************)
Terminal(p) == p \in {PhaseStopped, PhaseError}

FailedServices == {id \in DOMAIN services : completion[services[id]].err # Nil}

C15_WaitReturnsAtTerminalPhase ==
    [][variant = "manager" =>
          \A t \in Tasks :
              (pc[t] = "Wait:wait" /\ pc'[t] = "returned") =>
                  /\ local[t].id \in DOMAIN services
                  /\ Terminal(PhaseLookup(local[t].id).phase)]_vars

(***************************************************************************)
(* C16: the completion of a service is broadcast.  Every task that waits   *)
(* in Manager.Wait for a service that is done can return; a Wait that      *)
(* returns gives the service's result and leaves the completion as it is,  *)
(* and a completion that is written never changes, so every waiter of one  *)
(* service gets the same result.                                           *)
(***************************************************************************)
C16_EveryWaiterGetsTheResult ==
    /\ [](variant = "manager" =>
             \A t \in Tasks :
                 (pc[t] = "Wait:wait" /\ completion[local[t].svc].done) =>
                     ENABLED ManagerWaitReturn(t))
    /\ [][variant = "manager" =>
             /\ \A o \in Objs : completion[o].done => completion'[o] = completion[o]
             /\ \A t \in Tasks :
                   (pc[t] = "Wait:wait" /\ pc'[t] = "returned") =>
                       /\ completion[local[t].svc].done
                       /\ ret'[t] = [err |-> completion[local[t].svc].err,
                                     related |-> Nil, many |-> <<>>]
                       /\ \A u \in Tasks :
                             (pc[u] = "Wait:wait" /\ local[u].svc = local[t].svc
                                 /\ u # t) =>
                                   /\ pc'[u] = "Wait:wait"
                                   /\ completion'[local[u].svc].done]_vars

\* Two tasks have waited for the one service that ran, and both got its error.
C16_Witness ==
    /\ variant = "manager"
    /\ execs = 3
    /\ hooks = [o \in Objs |-> IF o = "a1" THEN [Init |-> 1, Run |-> 1, Shutdown |-> 0]
                               ELSE NoHooks]
    /\ completion["a1"] = [done |-> TRUE, err |-> E1]
    /\ \A t \in Tasks :
          Returned(t) /\ ret[t] = [err |-> E1, related |-> Nil, many |-> <<>>]

(***************************************************************************)
(* C17: the Manager's map lock is not held while a task has calls into     *)
(* service code or blocking waits to make: a task in the range of          *)
(* ShutdownAll or WaitAll with services left does not hold servicesMtx, so *)
(* the other tasks' Phase, Shutdown, Wait and Run get past their lock.     *)
(***************************************************************************)
C17_LockNotHeldAcrossServiceCalls ==
    variant = "manager" =>
        \A t \in Tasks :
            (pc[t] \in {"ShutdownAll:range", "WaitAll:range"}
                /\ local[t].pending # {}) => servicesMtx = 0

(***************************************************************************)
(* C18: the phase starts at PhaseWaiting, every Phase read returns one of  *)
(* the six defined values, and no write of a phase field happens while a   *)
(* read of that field is in progress: the phase lock excludes them.        *)
(***************************************************************************)
C18_PhaseReadsExcludeWrites ==
    /\ [](IsDriver =>
             /\ execs = 0 => (phase = PhaseWaiting /\ \A t \in Tasks : hphase[t] = PhaseWaiting)
             /\ \A t \in Tasks :
                   (Returned(t) /\ DOMAIN ret[t] = {"phase"}) => ret[t].phase \in Phases)
    /\ [][IsDriver =>
             \A t \in Tasks :
                 (pc[t] = "Phase:read" /\ pc'[t] = "Phase:read") =>
                     /\ variant = "struct" => phase' = phase
                     /\ variant = "handle" =>
                           \A h \in Tasks : t \in phaseMtx[h] => hphase'[h] = hphase[h]]_vars

(***************************************************************************)
(* C19: the phase of a service instance (of a handle, in the handle draft) *)
(* only moves forward along Waiting, Initializing, Running, ShuttingDown,  *)
(* {Stopped, Error}, and once it is Stopped or Error it does not change.   *)
(***************************************************************************)
Rank(p) == IF Terminal(p) THEN 4 ELSE p

Forward(p, q) == Rank(p) <= Rank(q) /\ (Terminal(p) => q = p)

C19_PhaseOnlyMovesForward ==
    [][/\ variant = "struct" => Forward(phase, phase')
       /\ variant = "handle" =>
             \A t \in Tasks : HandleExists(t) => Forward(hphase[t], hphase'[t])]_vars

RunAndWaitReturned(t) ==
    variant = "runAndWait" /\ Returned(t) /\ frame[t].at \in {"WaitAll", "nothing"}

InitFailures(t) ==
    {i \in 1..Len(frame[t].errs) :
        frame[t].errs[i].err[2] = "service failed to initialize"}

C21_InitFailureIsReturned ==
    \A t \in Tasks :
        (RunAndWaitReturned(t) /\ InitFailures(t) # {}) =>
            /\ ret[t] # NoError
            /\ \A i \in InitFailures(t) :
                  \E j \in 1..Len(ret[t].many) : ret[t].many[j] = frame[t].errs[i]

(***************************************************************************)
(* C22: over all the driver's invocations on one Service value, concurrent *)
(* ones included, Init is invoked at most once, Run at most once and       *)
(* Shutdown at most once, and in that order: Run only after Init returned  *)
(* nil, Shutdown only after Run returned.                                  *)
(***************************************************************************)
C22_HooksAtMostOnceInOrder ==
    variant = "struct" =>
        /\ initCalls <= 1
        /\ runCalls <= 1
        /\ shutdownCalls <= 1
        /\ \A t \in Tasks :
              /\ Invoked(t, "Run") => initErr[t] = Nil
              /\ Invoked(t, "Shutdown") =>
                    Invoked(t, "Run") /\ pc[t] \in {"final", "returned"}

(***************************************************************************)
(* C23: of the Manager.Run calls made with services of one identity, at    *)
(* most one is past the lookup at a time, so Init is invoked for at most   *)
(* one of concurrent calls, at most one of them returns the id, and at     *)
(* most one Run task is ever launched for that identity.                   *)
(***************************************************************************)
PastLookup(t, id) == pc[t] \in {"Run:init", "Run:register"} /\ local[t].id = id

Launched(o) == goroutines[o].spawned + goroutines[o].running + goroutines[o].returned

C23_OneRunPerIdentity ==
    variant = "manager" =>
        \A id \in IDs :
            /\ Cardinality({t \in Tasks : PastLookup(t, id)}) <= 1
            /\ Cardinality({t \in Tasks : Returned(t) /\ retId[t] = id}) <= 1
            /\ Cardinality({o \in Objs : ServiceID(o) = id /\ Launched(o) > 0}) <= 1
            /\ \A o \in Objs : ServiceID(o) = id => Launched(o) <= 1

(***************************************************************************)
(* C24: Manager.Run keeps its caller only for the duration of Init.  A     *)
(* call whose Init has returned nil does not wait for service code: no     *)
(* task holds the map lock over a range with services left.  Its return    *)
(* gives the id and nil and launches Run without waiting for it, and       *)
(* whatever Run or Shutdown return is never in the result of Manager.Run.  *)
(***************************************************************************)
C24_RunBlocksOnlyForInit ==
    /\ [](variant = "manager" =>
             \A t \in Tasks :
                 pc[t] = "Run:register" =>
                     ~\E u \in Tasks :
                         /\ servicesMtx = u
                         /\ pc[u] \in {"ShutdownAll:range", "WaitAll:range"}
                         /\ local[u].pending # {})
    /\ [][variant = "manager" =>
             \A t \in Tasks :
                 /\ (pc[t] = "Run:register" /\ pc'[t] = "returned") =>
                       /\ ret'[t] = NoError
                       /\ retId'[t] = ServiceID(local[t].svc)
                       /\ hooks' = hooks
                       /\ completion' = completion
                       /\ goroutines'[local[t].svc].spawned =
                             goroutines[local[t].svc].spawned + 1
                 /\ (pc[t] = "Run:init" /\ pc'[t] = "returned") =>
                       /\ ret'[t] = Msg("service failed to initialize", initErr'[t], Nil)
                       /\ initErr'[t] # Nil]_vars

(***************************************************************************)
(* C25: Manager.Shutdown(id) and Manager.ShutdownAll only invoke Shutdown  *)
(* hooks.  Every step of theirs leaves the mapping, the launched Run tasks *)
(* and their completion (nothing makes Run return), and every service's    *)
(* phase as they were; the step that calls into a service counts one       *)
(* Shutdown invocation for that registered service and no other hook.      *)
(***************************************************************************)
ShutdownLabels == {"Shutdown:call", "ShutdownAll:range"}

C25_ShutdownStep(t) ==
    \/ pc[t] \in {"idle", "returned"} /\ pc'[t] \in ShutdownLabels
    \/ pc[t] \in ShutdownLabels /\ (pc'[t] # pc[t] \/ local'[t] # local[t])

C25_ShutdownOnlyInvokesHook ==
    [][variant = "manager" =>
          \A t \in Tasks :
              C25_ShutdownStep(t) =>
                  /\ services' = services
                  /\ goroutines' = goroutines
                  /\ completion' = completion
                  /\ \A o \in Objs : ServicePhase(o)' = ServicePhase(o)
                  /\ IF pc[t] = "Shutdown:call"
                     THEN hooks' = [hooks EXCEPT ![local[t].svc].Shutdown = @ + 1]
                     ELSE IF pc[t] = "ShutdownAll:range" /\ pc'[t] = "ShutdownAll:range"
                     THEN \E id \in DOMAIN services :
                             hooks' = [hooks EXCEPT ![services[id]].Shutdown = @ + 1]
                     ELSE hooks' = hooks]_vars

\* Shutdown(id) and ShutdownAll have both returned for a service whose Run
\* is still running.
C25_Witness ==
    /\ variant = "manager"
    /\ \A t \in Tasks : Returned(t)
    /\ DOMAIN services = {ServiceID("a1")}
    /\ services[ServiceID("a1")] = "a1"
    /\ hooks["a1"] = [Init |-> 1, Run |-> 1, Shutdown |-> 2]
    /\ goroutines["a1"] = [spawned |-> 0, running |-> 1, returned |-> 0]
    /\ ~completion["a1"].done
    /\ ret[2] = [err |-> E2, related |-> Nil, many |-> <<>>]
    /\ DOMAIN ret[1] = {"err", "related", "many"} /\ ret[1].many # <<>>

(***************************************************************************)
(* C26: the registered ids only grow.  No step takes an id out of the      *)
(* mapping; once Phase(id) is PhaseStopped or PhaseError it stays that     *)
(* value; and a Manager.Run call that starts with its identity registered  *)
(* is rejected as already running.                                         *)
(***************************************************************************)
C26_RegisteredIdsOnlyGrow ==
    [][variant = "manager" =>
          /\ DOMAIN services \subseteq DOMAIN services'
          /\ \A id \in DOMAIN services :
                Terminal(PhaseLookup(id).phase) => PhaseLookup(id)' = PhaseLookup(id)
          /\ \A t \in Tasks :
                (pc[t] \in {"idle", "returned"} /\ pc'[t] = "Run:init") =>
                    local'[t].id \notin DOMAIN services]_vars

(***************************************************************************)
(* C27: on a Service without a Run function every call of the driver       *)
(* returns "service has no Run method" at once: no execution is ever in    *)
(* progress, no hook is invoked and the phase stays PhaseWaiting.          *)
(***************************************************************************)
C27_NoRunIsUsageError ==
    (variant = "struct" /\ ~svc.Run) =>
        /\ phase = PhaseWaiting
        /\ initCalls = 0 /\ runCalls = 0 /\ shutdownCalls = 0
        /\ \A t \in Tasks :
              /\ pc[t] \in {"idle", "returned", "Phase:read"}
              /\ called[t] = <<>>
              /\ (Returned(t) /\ DOMAIN ret[t] # {"phase"}) =>
                    ret[t] = Msg("service has no Run method", Nil, Nil)

\* Both tasks have called the driver on a Service that has Init and Shutdown
\* but no Run.
C27_Witness ==
    /\ variant = "struct"
    /\ svc = [Init |-> TRUE, Run |-> FALSE, Shutdown |-> TRUE]
    /\ execs = 2
    /\ phase = PhaseWaiting
    /\ \A t \in Tasks :
          Returned(t) /\ ret[t] = Msg("service has no Run method", Nil, Nil)

(***************************************************************************)
(* C28: when an execution that got past Init returns, its result and the   *)
(* phase it leaves agree: the result is nil exactly when the phase is      *)
(* PhaseStopped and non-nil exactly when the phase is PhaseError.          *)
(***************************************************************************)
C28_ResultAgreesWithFinalPhase ==
    [][\A t \in Tasks :
          (IsDriver /\ pc[t] = "final" /\ pc'[t] = "returned") =>
              /\ (ret'[t] = NoError) <=> (PhaseOf(t)' = PhaseStopped)
              /\ (ret'[t] # NoError) <=> (PhaseOf(t)' = PhaseError)]_vars

=============================================================================
